---- MODULE Spec2Model ----
(***************************************************************************)
(* docs/conf.py of hipCUB: the Sphinx configuration module.  Loading the   *)
(* module runs its body top to bottom: it builds a ROCmDocs helper, calls  *)
(* run_doxygen, enable_api_reference and setup on it, assigns              *)
(* external_projects_current_project, and copies every attribute named in  *)
(* ROCmDocs.SPHINX_VARS from the helper into the module's globals.         *)
(*                                                                         *)
(* rocm_docs is a third-party package: what its constructor and methods    *)
(* do to the helper's attributes, whether they raise, and what             *)
(* SPHINX_VARS holds are inputs, drawn here from small sets.               *)
(***************************************************************************)
EXTENDS Naturals, Sequences, FiniteSets

VARIABLES
    pc,           \* the statement of conf.py that runs next
    globals,      \* the module's global namespace: name -> value
    attrs,        \* the attributes of the ROCmDocs instance built at line 10
    SPHINX_VARS,  \* ROCmDocs.SPHINX_VARS as the for statement (line 17) read it
    idx,          \* position of the for statement's iterator in SPHINX_VARS
    calls,        \* the calls made into rocm_docs so far, in order
    exported,     \* the writes made by line 18 so far, in order
    raisedAt      \* the statement whose exception ended the load, or "none"

vars == <<pc, globals, attrs, SPHINX_VARS, idx, calls, exported, raisedAt>>

----------------------------------------------------------------------------
(* Bounds and value universe *)

\* longest SPHINX_VARS examined
MaxLen == 3

Unbound == "<unbound>"     \* a name the namespace does not contain
Absent  == "<absent>"      \* an attribute the object does not have
None    == "None"

\* Names SPHINX_VARS may hold: one ordinary Sphinx variable and the three
\* names that conf.py itself binds (lines 10, 15 and 17).
Names == {"html_title", "external_projects_current_project", "sphinx_var", "docs_core"}

GlobalNames == Names \cup {"ROCmDocs"}

\* The instance built at line 10, and one other object an attribute may refer to.
Instance == "o1"
OtherObject == "o2"

\* What an attribute of the instance may hold.
AttrVals == {Absent, "hipcub", "x", OtherObject}
AttrMaps == [Names -> AttrVals]

\* The attributes of the other object.
OtherAttrs == [n \in Names |-> "y"]

SphinxVarsChoices == UNION {[1..n -> Names] : n \in 0..MaxLen}

----------------------------------------------------------------------------
(* The module body, statement by statement *)

ProjectName == "hipCUB Documentation"
ProjectVar == "external_projects_current_project"
ProjectValue == "hipcub"

HelperSteps == {"ctor", "run_doxygen", "enable_api_reference", "setup"}

\* Mutations of the statement order.
ProgramOrderExportFirst ==
    <<"ctor", "run_doxygen", "enable_api_reference", "assign", "for_enter", "setup", "done">>
ProgramOrderAssignLast ==
    <<"ctor", "run_doxygen", "enable_api_reference", "setup", "for_enter", "assign", "done">>
ProgramOrderApiFirst ==
    <<"ctor", "enable_api_reference", "run_doxygen", "setup", "assign", "for_enter", "done">>

\* Lines 10, 11, 12, 13, 15, 17-18, end of file.
ProgramOrder ==
    <<"ctor", "run_doxygen", "enable_api_reference", "setup", "assign", "for_enter", "done">>

\* The statement that follows statement s.
Succ(s) ==
    LET i == CHOOSE j \in 1..Len(ProgramOrder) : ProgramOrder[j] = s
    IN  ProgramOrder[i + 1]

\* A handler that swallows the exception and goes on.
OnRaiseSwallowed(s) == Succ(s)

\* No statement sits in a try block: an exception ends the load.
OnRaise(s) == "raised"

\* getattr(obj, name): AttributeError is Absent.
Getattr(a, obj, name) ==
    IF obj = Instance THEN a[name]
    ELSE IF obj = OtherObject THEN OtherAttrs[name]
    ELSE Absent

\* globals()["sphinx_var"] = ... : the name quoted.
ExportTargetQuoted(g) == "sphinx_var"

\* Line 18, left side: the key globals()[sphinx_var] writes.
ExportTarget(g) == g["sphinx_var"]

\* getattr(docs_core, sphinx_var, None): a default instead of AttributeError.
ExportValueDefault(g, a) ==
    LET v == Getattr(a, g["docs_core"], g["sphinx_var"])
    IN  IF v = Absent THEN None ELSE v

\* Line 18, right side: getattr(docs_core, sphinx_var).
ExportValue(g, a) == Getattr(a, g["docs_core"], g["sphinx_var"])

Call(method, self, arg, outcome) ==
    [method |-> method, self |-> self, arg |-> arg, outcome |-> outcome]

Init ==
    /\ pc = ProgramOrder[1]
    /\ globals = [g \in GlobalNames |-> IF g = "ROCmDocs" THEN "class ROCmDocs" ELSE Unbound]
    /\ attrs = [n \in Names |-> Absent]
    /\ SPHINX_VARS = <<>>
    /\ idx = 0
    /\ calls = <<>>
    /\ exported = <<>>
    /\ raisedAt = "none"

\* Line 10: docs_core = ROCmDocs("hipCUB Documentation")
Construct ==
    /\ pc = "ctor"
    /\ \/ /\ \E m \in AttrMaps : attrs' = m
          /\ calls' = Append(calls, Call("__init__", Instance, ProjectName, "returned"))
          /\ globals' = [globals EXCEPT !["docs_core"] = Instance]
          /\ pc' = Succ("ctor")
          /\ UNCHANGED raisedAt
       \/ /\ calls' = Append(calls, Call("__init__", Instance, ProjectName, "raised"))
          /\ raisedAt' = "ctor"
          /\ pc' = OnRaise("ctor")
          /\ UNCHANGED <<attrs, globals>>
    /\ UNCHANGED <<SPHINX_VARS, idx, exported>>

\* docs_core.<method>() at statement s: the method returns or raises, and
\* either way may have changed the attributes of the object it ran on.
HelperCall(s) ==
    /\ pc = s
    /\ LET self == globals["docs_core"] IN
       /\ IF self = Instance
          THEN \E m \in AttrMaps : attrs' = m
          ELSE UNCHANGED attrs
       /\ \/ /\ calls' = Append(calls, Call(s, self, None, "returned"))
             /\ pc' = Succ(s)
             /\ UNCHANGED raisedAt
          \/ /\ calls' = Append(calls, Call(s, self, None, "raised"))
             /\ raisedAt' = s
             /\ pc' = OnRaise(s)
    /\ UNCHANGED <<globals, SPHINX_VARS, idx, exported>>

\* Line 11
RunDoxygen == HelperCall("run_doxygen")
\* Line 12
EnableApiReference == HelperCall("enable_api_reference")
\* Line 13
Setup == HelperCall("setup")

\* Line 15: external_projects_current_project = "hipcub"
AssignProject ==
    /\ pc = "assign"
    /\ globals' = [globals EXCEPT ![ProjectVar] = ProjectValue]
    /\ pc' = Succ("assign")
    /\ UNCHANGED <<attrs, SPHINX_VARS, idx, calls, exported, raisedAt>>

\* Line 17, entry: ROCmDocs.SPHINX_VARS is evaluated and an iterator made.
ForEnter ==
    /\ pc = "for_enter"
    /\ SPHINX_VARS' \in SphinxVarsChoices
    /\ idx' = 0
    /\ pc' = "for"
    /\ UNCHANGED <<globals, attrs, calls, exported, raisedAt>>

\* Line 17, each pass: the next element is bound to sphinx_var, or the loop ends.
ForNext ==
    /\ pc = "for"
    /\ IF idx < Len(SPHINX_VARS)
       THEN /\ globals' = [globals EXCEPT !["sphinx_var"] = SPHINX_VARS[idx + 1]]
            /\ idx' = idx + 1
            /\ pc' = "body"
       ELSE /\ pc' = Succ("for_enter")
            /\ UNCHANGED <<globals, idx>>
    /\ UNCHANGED <<attrs, SPHINX_VARS, calls, exported, raisedAt>>

\* Line 18: globals()[sphinx_var] = getattr(docs_core, sphinx_var)
ForBody ==
    /\ pc = "body"
    /\ LET v == ExportValue(globals, attrs)
           k == ExportTarget(globals)
       IN  IF v = Absent
           THEN /\ raisedAt' = "export"
                /\ pc' = "raised"
                /\ UNCHANGED <<globals, exported>>
           ELSE /\ globals' = [globals EXCEPT ![k] = v]
                /\ exported' = Append(exported,
                       [name |-> k, val |-> v, obj |-> globals["docs_core"], pos |-> idx])
                /\ pc' = "for"
                /\ UNCHANGED raisedAt
    /\ UNCHANGED <<attrs, SPHINX_VARS, idx, calls>>

Next ==
    \/ Construct
    \/ RunDoxygen
    \/ EnableApiReference
    \/ Setup
    \/ AssignProject
    \/ ForEnter
    \/ ForNext
    \/ ForBody

Spec == Init /\ [][Next]_vars

\* The interpreter runs the module body to its end.
FairSpec == Spec /\ WF_vars(Next)

----------------------------------------------------------------------------
(* Vocabulary of the properties *)

Range(q) == {q[i] : i \in DOMAIN q}

ExportedNames == {exported[i].name : i \in DOMAIN exported}

\* The last write line 18 made to the global named v.
LastExport(v) ==
    exported[CHOOSE i \in DOMAIN exported :
                 /\ exported[i].name = v
                 /\ \A j \in DOMAIN exported : j > i => exported[j].name # v]

\* What getattr(docs_core, v) gave when line 18 last read it, looked up in
\* the attributes as they are now.
ReadValue(v) == Getattr(attrs, LastExport(v).obj, v)

\* The load ran to the end of the file and nothing raised.
Loaded == pc = "done" /\ raisedAt = "none"

ExpectedCalls == <<"__init__", "run_doxygen", "enable_api_reference", "setup">>

StepMethod(s) == IF s = "ctor" THEN "__init__" ELSE s

Methods == [i \in DOMAIN calls |-> calls[i].method]

Returned(m) ==
    \E i \in DOMAIN calls : calls[i].method = m /\ calls[i].outcome = "returned"

HelpersReturned == \A i \in DOMAIN ExpectedCalls : Returned(ExpectedCalls[i])

----------------------------------------------------------------------------
(* C1 *)

\* C1, as stated: after a load without an exception every name v of
\* SPHINX_VARS is a module global whose value is the value of attribute v
\* that the export loop read from docs_core.
C1_EveryNameExported ==
    Loaded =>
        \A i \in DOMAIN SPHINX_VARS :
            LET v == SPHINX_VARS[i] IN
            /\ v \in ExportedNames
            /\ globals[v] # Unbound
            /\ globals[v] = ReadValue(v)

\* C1, amended: the same, except for the name sphinx_var when SPHINX_VARS
\* holds it but does not end with it; sphinx_var is the loop variable, so
\* that global ends as the last element of SPHINX_VARS.
C1_EveryNameExportedButLoopVar ==
    Loaded =>
        /\ Len(exported) = Len(SPHINX_VARS)
        /\ \A i \in DOMAIN SPHINX_VARS :
            LET v == SPHINX_VARS[i] IN
            /\ v \in ExportedNames
            /\ globals[v] # Unbound
            /\ IF v = "sphinx_var" /\ SPHINX_VARS[Len(SPHINX_VARS)] # "sphinx_var"
               THEN globals[v] = SPHINX_VARS[Len(SPHINX_VARS)]
               ELSE globals[v] = ReadValue(v)

C1_Witness ==
    /\ Loaded
    /\ Len(SPHINX_VARS) >= 2
    /\ SPHINX_VARS[1] = "sphinx_var"
    /\ SPHINX_VARS[2] = "html_title"
    /\ globals["html_title"] = "x"

----------------------------------------------------------------------------
(* C2 *)

\* C2, as stated: in every load, once it has ended, the constructor has been
\* called once with "hipCUB Documentation" and run_doxygen,
\* enable_api_reference and setup have each been called once on that
\* instance, in this order.
C2_EveryLoadCallsAll ==
    pc \in {"done", "raised"} =>
        /\ Methods = ExpectedCalls
        /\ calls[1].arg = "hipCUB Documentation"
        /\ \A i \in DOMAIN calls : calls[i].self = Instance

\* C2, amended: the calls made are always an initial part of that order, on
\* the one instance, each at most once and each but the last returned; in a
\* load in which none of the four raises, all four are made, each once.
C2_CallsInOrder ==
    /\ Len(calls) <= Len(ExpectedCalls)
    /\ Methods = SubSeq(ExpectedCalls, 1, Len(calls))
    /\ \A i \in DOMAIN calls :
        /\ calls[i].self = Instance
        /\ i = 1 => calls[i].arg = "hipCUB Documentation"
        /\ i < Len(calls) => calls[i].outcome = "returned"
    /\ globals["docs_core"] # Unbound => Returned("__init__")
    /\ (pc \notin HelperSteps /\ raisedAt \notin HelperSteps) =>
        /\ Methods = ExpectedCalls
        /\ HelpersReturned

C2_Witness ==
    /\ Loaded
    /\ Methods = ExpectedCalls
    /\ HelpersReturned

----------------------------------------------------------------------------
(* C3 *)

\* C3: the export loop writes nothing before run_doxygen,
\* enable_api_reference and setup have all returned (until then no name but
\* docs_core, which line 10 binds to the helper, is a module global), and
\* every value it has written is the value the attribute has after setup.
C3_ExportAfterSetup ==
    /\ ~HelpersReturned =>
        /\ exported = <<>>
        /\ pc \notin {"for", "body"}
        /\ \A n \in Names \ {"docs_core"} : globals[n] = Unbound
    /\ \A i \in DOMAIN exported :
        /\ HelpersReturned
        /\ exported[i].val = Getattr(attrs, exported[i].obj, exported[i].name)

C3_Witness ==
    /\ Loaded
    /\ SPHINX_VARS = <<"html_title">>
    /\ globals["html_title"] = "x"
    /\ HelpersReturned

----------------------------------------------------------------------------
(* C4 *)

\* C4: when the constructor, run_doxygen, enable_api_reference or setup
\* raises, the load has stopped there: no later statement runs, the raising
\* call is the last call made, external_projects_current_project is not
\* set and the export loop has written nothing.
C4_RaisePropagates ==
    raisedAt \in HelperSteps =>
        /\ pc = "raised"
        /\ ~ENABLED Next
        /\ Methods = SubSeq(ExpectedCalls, 1, Len(calls))
        /\ calls[Len(calls)].method = StepMethod(raisedAt)
        /\ calls[Len(calls)].outcome = "raised"
        /\ globals["external_projects_current_project"] = Unbound
        /\ exported = <<>>
        /\ \A n \in Names \ {"docs_core"} : globals[n] = Unbound

C4_Witness ==
    /\ raisedAt = "enable_api_reference"
    /\ pc = "raised"
    /\ Len(calls) = 3

----------------------------------------------------------------------------
(* C5 *)

\* C5: after a load without an exception external_projects_current_project
\* is "hipcub" when SPHINX_VARS does not hold that name, and is the value
\* the export loop read from docs_core's attribute of that name when it does.
C5_CurrentProject ==
    Loaded =>
        IF "external_projects_current_project" \notin Range(SPHINX_VARS)
        THEN globals["external_projects_current_project"] = "hipcub"
        ELSE /\ "external_projects_current_project" \in ExportedNames
             /\ globals["external_projects_current_project"]
                    = ReadValue("external_projects_current_project")

C5_Witness ==
    /\ Loaded
    /\ "external_projects_current_project" \in Range(SPHINX_VARS)
    /\ attrs["external_projects_current_project"] = "x"
    /\ globals["external_projects_current_project"] = "x"

----------------------------------------------------------------------------
(* C6 *)

\* C6: the export loop never writes a name whose attribute is missing; when
\* the attribute for the element at position k is missing the load stops
\* there with the exception, the elements before k have been written, one
\* write each and in order, and stay written (no rollback), and no element
\* from position k on has been written.
C6_PartialExport ==
    /\ \A i \in DOMAIN exported :
        /\ exported[i].val # None
        /\ Getattr(attrs, exported[i].obj, exported[i].name) # Absent
    /\ raisedAt = "export" =>
        /\ pc = "raised"
        /\ ~ENABLED Next
        /\ idx \in DOMAIN SPHINX_VARS
        /\ Getattr(attrs, globals["docs_core"], SPHINX_VARS[idx]) = Absent
        /\ Len(exported) = idx - 1
        /\ \A i \in 1..(idx - 1) :
            /\ exported[i].pos = i
            /\ exported[i].name = SPHINX_VARS[i]
            /\ globals[SPHINX_VARS[i]] # Unbound
            /\ SPHINX_VARS[i] # "sphinx_var" =>
                   globals[SPHINX_VARS[i]] = LastExport(SPHINX_VARS[i]).val
        /\ \A i \in idx..Len(SPHINX_VARS) :
            SPHINX_VARS[i] \notin {SPHINX_VARS[j] : j \in 1..(idx - 1)} =>
                /\ SPHINX_VARS[i] \notin ExportedNames
                /\ SPHINX_VARS[i] \notin {"docs_core", "sphinx_var", ProjectVar} =>
                       globals[SPHINX_VARS[i]] = Unbound

C6_Witness ==
    /\ raisedAt = "export"
    /\ SPHINX_VARS = <<"html_title", "external_projects_current_project", "html_title">>
    /\ idx = 2
    /\ globals["html_title"] = "x"
    /\ globals["external_projects_current_project"] = "hipcub"

----------------------------------------------------------------------------
(* C7 *)

\* What a step taken inside the export loop may change.
LoopStep ==
    pc \in {"for", "body"} =>
        /\ attrs' = attrs
        /\ calls' = calls
        /\ SPHINX_VARS' = SPHINX_VARS
        /\ pc = "for" =>
            /\ \A g \in GlobalNames \ {"sphinx_var"} : globals'[g] = globals[g]
            /\ IF idx < Len(SPHINX_VARS)
               THEN /\ idx' = idx + 1
                    /\ globals'["sphinx_var"] = SPHINX_VARS[idx']
                    /\ pc' = "body"
               ELSE /\ pc' = "done"
                    /\ globals' = globals
                    /\ Len(exported) = Len(SPHINX_VARS)
        /\ pc = "body" =>
            /\ idx' = idx
            /\ \A g \in GlobalNames \ {SPHINX_VARS[idx]} : globals'[g] = globals[g]
            /\ pc' = "for" =>
                /\ Len(exported') = idx
                /\ exported'[idx].name = SPHINX_VARS[idx]
                /\ SubSeq(exported', 1, idx - 1) = exported

====
